---------------------------- MODULE Spec2Model ----------------------------
(***************************************************************************)
(* Model of the peer-evaluation score tool (src/src/App.tsx).              *)
(*                                                                         *)
(* The React component App is modelled as a state machine.  Its state is   *)
(* the useState cells (allEvaluations, currentScorer, axisLabel, toast),   *)
(* the browser's local storage item under STORAGE_KEY, the FileReader      *)
(* reads in flight and the last file written by exportToJson.  Every event *)
(* handler is one action; the persist effect (useEffect on                 *)
(* [allEvaluations, axisLabel]) runs inside the action that changed one of *)
(* its dependencies, as React runs it after the render the handler caused. *)
(*                                                                         *)
(* Names are romanised (the source uses Hangul); the order localeCompare   *)
(* gives the Hangul names is kept in koreanOrder.  Scores are integers: a  *)
(* file may carry any integer, other JSON values are outside the model.    *)
(***************************************************************************)
EXTENDS Integers, Sequences, FiniteSets

VARIABLES
    allEvaluations,   \* useState: evaluator -> (subject -> score)
    currentScorer,    \* useState: the evaluator being edited
    axisLabel,        \* useState: free-text axis label
    toast,            \* useState: the notification shown, or NoToast
    storage,          \* localStorage item under STORAGE_KEY, or NoItem
    pendingReads,     \* FileReader reads started and not yet loaded
    exportedFile,     \* text of the last file exportToJson produced, or NoFile
    exportedFrom,     \* history: the state exportToJson serialised
    lastOp,           \* history: the handler that ran last, with its inputs
    lastWrite,        \* history: outcome of the latest localStorage.setItem
    steps             \* history: number of handlers run so far

vars == <<allEvaluations, currentScorer, axisLabel, toast, storage,
          pendingReads, exportedFile, exportedFrom, lastOp, lastWrite, steps>>

---------------------------------------------------------------------------
(* Bounds of the exploration *)

\* Number of handlers a run executes.
MaxSteps == 2

\* Score inputs go to the first MaxEdited subjects of the current scorer.
MaxEdited == 2

\* Scorer buttons pressed in a run: those of the first MaxScorers participants.
MaxScorers == 2

\* FileReader reads that may be in flight at once.
MaxPending == 1

\* Number of handlers in a run without imports (EditSpec).
MaxEditSteps == 2

\* Number of handlers in a run over saved matrices (DerivedSpec).
MaxDerivedSteps == 1

\* Number of handlers in a run around a file read (ImportSpec).
MaxImportSteps == 3

\* Number of handlers in a run of exports and re-imports (RoundTripSpec).
MaxRoundTripSteps == 5

---------------------------------------------------------------------------
(* Program constants *)

participantsNames ==
    <<"Jiun", "Daeseong", "Junho", "Haun", "Byeongju", "Hyeongjin", "Taeuk",
      "Seungjae", "Hyeonu", "Taehyeon", "Sanghyeok", "Seunghui", "Garam",
      "Hyomin", "Ung", "Junihyeong", "Haneul">>

Participants == {participantsNames[i] : i \in 1..Len(participantsNames)}

jiunInitialScores ==
    [n \in Participants \ {"Jiun"} |->
        CASE n = "Daeseong"  -> 100
          [] n = "Junho"     -> 95
          [] n = "Haun"      -> 90
          [] n = "Byeongju"  -> 80
          [] n = "Hyeongjin" -> 70
          [] n = "Taeuk"     -> 65
          [] n = "Seungjae"  -> 40
          [] n = "Hyeonu"    -> 30
          [] OTHER           -> 0]

\* useState('...') default of axisLabel.
DefaultAxisLabel == "sik jeomsu"

SCORE_BAND == 12
STAGGER_THRESHOLD == 18
VERTICAL_OFFSET == 26
CenterMin == 3
CenterMax == 97
ScoreMin == 0
ScoreMax == 100
\* averageScores.slice(0, 5)
LeaderboardSize == 5

\* A name that is no participant: it can only come from an imported file.
Outsider == "Oebuin"

\* The order String.prototype.localeCompare gives the names (Hangul order:
\* Garam, Daeseong, Byeongju, Sanghyeok, Seungjae, Seunghui, Oebuin, Ung,
\* Junihyeong, Junho, Jiun, Taeuk, Taehyeon, Haun, Haneul, Hyeonu,
\* Hyeongjin, Hyomin).
koreanOrder ==
    <<"Garam", "Daeseong", "Byeongju", "Sanghyeok", "Seungjae", "Seunghui",
      "Oebuin", "Ung", "Junihyeong", "Junho", "Jiun", "Taeuk", "Taehyeon",
      "Haun", "Haneul", "Hyeonu", "Hyeongjin", "Hyomin">>

localeCompareRank(name) ==
    CHOOSE i \in 1..Len(koreanOrder) : koreanOrder[i] = name

---------------------------------------------------------------------------
(* Objects: a JavaScript object with string keys is a function; its keys   *)
(* are listed in the order keyOrder (participants first, as getInitialData *)
(* inserts them).                                                          *)

EmptyObj == [k \in {} |-> 0]

keyOrder == participantsNames \o <<Outsider>>

\* Object.keys(obj)
ObjectKeys(obj) == SelectSeq(keyOrder, LAMBDA k : k \in DOMAIN obj)

\* obj[key] || {}
GetOrEmpty(obj, key) == IF key \in DOMAIN obj THEN obj[key] ELSE EmptyObj

\* { ...obj, [key]: value }
Spread(obj, key, value) ==
    [k \in DOMAIN obj \cup {key} |-> IF k = key THEN value ELSE obj[k]]

RECURSIVE SumOver(_, _)
SumOver(obj, keys) ==
    IF keys = {} THEN 0
    ELSE LET k == CHOOSE x \in keys : TRUE
         IN  obj[k] + SumOver(obj, keys \ {k})

\* Object.values(obj).reduce((a, b) => a + b, 0)
SumValues(obj) == SumOver(obj, DOMAIN obj)

---------------------------------------------------------------------------
(* JSON.  A JSON text is modelled by whether it is well formed and, when   *)
(* it is, by the member list of its top-level object, in the order of the  *)
(* text.  A JSON value is a tagged record: [str |-> s], [num |-> n] or     *)
(* [obj |-> members], members a sequence of [key, value].                  *)

JStr(s) == [str |-> s]
JNum(n) == [num |-> n]
JObj(members) == [obj |-> members]

IsStr(v) == DOMAIN v = {"str"}
IsObj(v) == DOMAIN v = {"obj"}

\* The JSON value JSON.stringify writes for a subject -> score object.
JsonOfScores(scores) ==
    LET keys == ObjectKeys(scores)
    IN  JObj([i \in 1..Len(keys) |->
                [key |-> keys[i], value |-> JNum(scores[keys[i]])]])

\* The JSON value JSON.stringify writes for allEvaluations.
JsonOfEvaluations(evals) ==
    LET keys == ObjectKeys(evals)
    IN  JObj([i \in 1..Len(keys) |->
                [key |-> keys[i], value |-> JsonOfScores(evals[keys[i]])]])

\* JSON.stringify(value) of an object given by its members.
JSONStringify(members) == [wellFormed |-> TRUE, members |-> members]

\* The object JSON.parse builds from a member list: a repeated key keeps
\* its last value.
ObjectOfMembers(members) ==
    LET keys == {members[i].key : i \in DOMAIN members}
        at(k) == {i \in DOMAIN members : members[i].key = k}
        last(k) == CHOOSE i \in at(k) : \A j \in at(k) : j <= i
    IN  [k \in keys |-> members[last(k)].value]

\* JSON.parse(text): throws on a text that is not JSON.
JSONParse(text) ==
    IF text.wellFormed
    THEN [threw |-> FALSE, value |-> ObjectOfMembers(text.members)]
    ELSE [threw |-> TRUE, value |-> EmptyObj]

\* The in-memory object of a parsed subject -> score value.
ScoresOfJson(v) ==
    LET o == ObjectOfMembers(v.obj) IN [k \in DOMAIN o |-> o[k].num]

\* The in-memory object of a parsed allEvaluations value.
EvaluationsOfJson(v) ==
    LET o == ObjectOfMembers(v.obj) IN [k \in DOMAIN o |-> ScoresOfJson(o[k])]

\* JavaScript truthiness of json[key]: a missing member is undefined, an
\* empty string and 0 are falsy, an object is truthy.
Truthy(object, key) ==
    /\ key \in DOMAIN object
    /\ LET v == object[key]
       IN  CASE IsStr(v) -> v.str # ""
             [] IsObj(v) -> TRUE
             [] OTHER    -> v.num # 0

---------------------------------------------------------------------------
(* parseInt and String(number).  A text is a sequence of one-character     *)
(* strings.                                                                *)

Digits == <<"0", "1", "2", "3", "4", "5", "6", "7", "8", "9">>

IsDigit(c) == \E i \in 1..Len(Digits) : Digits[i] = c

DigitValue(c) == (CHOOSE i \in 1..Len(Digits) : Digits[i] = c) - 1

RECURSIVE SkipSpaces(_)
SkipSpaces(text) ==
    IF text # <<>> /\ Head(text) = " " THEN SkipSpaces(Tail(text)) ELSE text

RECURSIVE DigitPrefixLen(_)
DigitPrefixLen(text) ==
    IF text # <<>> /\ IsDigit(Head(text)) THEN 1 + DigitPrefixLen(Tail(text))
    ELSE 0

RECURSIVE DigitsValue(_, _)
DigitsValue(text, n) ==
    IF n = 0 THEN 0
    ELSE 10 * DigitsValue(text, n - 1) + DigitValue(text[n])

NaN == [nan |-> TRUE, n |-> 0]

\* parseInt(text, 10): leading blanks, an optional sign, then the longest
\* run of digits; NaN when that run is empty.
parseInt(text) ==
    LET t == SkipSpaces(text)
        signed == t # <<>> /\ Head(t) \in {"-", "+"}
        body == IF signed THEN Tail(t) ELSE t
        n == DigitPrefixLen(body)
        magnitude == DigitsValue(body, n)
    IN  IF n = 0 THEN NaN
        ELSE [nan |-> FALSE,
              n |-> IF signed /\ Head(t) = "-" THEN 0 - magnitude ELSE magnitude]

isNaN(v) == v.nan

RECURSIVE NatToText(_)
NatToText(n) ==
    IF n < 10 THEN <<Digits[n + 1]>>
    ELSE NatToText(n \div 10) \o <<Digits[(n % 10) + 1]>>

\* String(n), the value attribute a range input reports.
NumberToText(n) == IF n < 0 THEN <<"-">> \o NatToText(0 - n) ELSE NatToText(n)

\* Mutant of ClampScore: Math.max(0, v), the upper limit forgotten.
ClampScoreWithoutMax(v) == IF v > ScoreMin THEN v ELSE ScoreMin

\* Math.min(100, Math.max(0, v))
ClampScore(v) ==
    LET lo == IF v > ScoreMin THEN v ELSE ScoreMin
    IN  IF lo < ScoreMax THEN lo ELSE ScoreMax

---------------------------------------------------------------------------
(* Values of the state *)

NoToast == [message |-> "", type |-> "none"]

\* setToast({ message, type })
Toast(message, type) == [message |-> message, type |-> type]

\* localStorage.getItem(STORAGE_KEY) === null
NoItem == [absent |-> TRUE]

NoFile == [absent |-> TRUE]

\* A text JSON.parse rejects.
BrokenText == [wellFormed |-> FALSE, members |-> <<>>]

getInitialData ==
    [scorer \in Participants |->
        [subject \in Participants \ {scorer} |->
            IF scorer = "Jiun" /\ subject \in DOMAIN jiunInitialScores
            THEN jiunInitialScores[subject]
            ELSE 0]]

\* Mutant of InitialAllEvaluations: the catch branch returns an empty
\* object instead of falling through to getInitialData().
InitialAllEvaluationsEmptyOnError(saved) ==
    IF saved = NoItem THEN getInitialData
    ELSE LET parsed == JSONParse(saved)
         IN  IF parsed.threw THEN EmptyObj
             ELSE IF Truthy(parsed.value, "allEvaluations")
             THEN EvaluationsOfJson(parsed.value["allEvaluations"])
             ELSE getInitialData

\* The useState initialiser of allEvaluations, given getItem's result.
InitialAllEvaluations(saved) ==
    IF saved = NoItem THEN getInitialData
    ELSE LET parsed == JSONParse(saved)
         IN  IF ~parsed.threw /\ Truthy(parsed.value, "allEvaluations")
             THEN EvaluationsOfJson(parsed.value["allEvaluations"])
             ELSE getInitialData

\* The useState initialiser of axisLabel, given getItem's result.
InitialAxisLabel(saved) ==
    IF saved = NoItem THEN DefaultAxisLabel
    ELSE LET parsed == JSONParse(saved)
         IN  IF ~parsed.threw /\ Truthy(parsed.value, "axisLabel")
             THEN parsed.value["axisLabel"].str
             ELSE DefaultAxisLabel

\* Mutant of PersistedSnapshot: the effect serialises allEvaluations alone.
PersistedSnapshotWithoutLabel(evals, label) ==
    JSONStringify(<<[key |-> "allEvaluations", value |-> JsonOfEvaluations(evals)]>>)

\* JSON.stringify({ allEvaluations, axisLabel }) of the persist effect.
PersistedSnapshot(evals, label) ==
    JSONStringify(<<[key |-> "allEvaluations", value |-> JsonOfEvaluations(evals)],
                    [key |-> "axisLabel", value |-> JStr(label)]>>)

\* JSON.stringify({ axisLabel, allEvaluations, exportedAt }) of exportToJson.
ExportedText(evals, label) ==
    JSONStringify(<<[key |-> "axisLabel", value |-> JStr(label)],
                    [key |-> "allEvaluations", value |-> JsonOfEvaluations(evals)],
                    [key |-> "exportedAt", value |-> JStr("toISOString")]>>)

\* Mutant of updateScore: the scorer's object is rebuilt without the spread
\* of prev[currentScorer].
updateScoreDroppingRest(prev, scorer, subjectName, newScore) ==
    Spread(prev, scorer, Spread(EmptyObj, subjectName, newScore))

\* Mutant of updateScore: the score is stored under the scorer's own name.
updateScoreUnderScorer(prev, scorer, subjectName, newScore) ==
    Spread(prev, scorer, Spread(GetOrEmpty(prev, scorer), scorer, newScore))

\* The setAllEvaluations updater of updateScore, applied to prev.
updateScore(prev, scorer, subjectName, newScore) ==
    Spread(prev, scorer, Spread(GetOrEmpty(prev, scorer), subjectName, newScore))

\* currentScores: the entries of allEvaluations[currentScorer] || {}.
currentScores(evals, scorer) ==
    LET scores == GetOrEmpty(evals, scorer)
        keys == ObjectKeys(scores)
    IN  [i \in 1..Len(keys) |-> [name |-> keys[i], score |-> scores[keys[i]]]]

\* Object.keys(evals).some(s => Object.values(evals[s] || {}).some(v => v > 0))
HasPositiveScore(evals) ==
    \E s \in DOMAIN evals : \E n \in DOMAIN evals[s] : evals[s][n] > 0

---------------------------------------------------------------------------
(* Derived values (useMemo) *)

\* Array.prototype.sort, which is stable; less[i][j] tells whether the
\* comparator puts seq[i] before seq[j].
StableSort(seq, less) ==
    LET n == Len(seq)
        pos(i) == 1 + Cardinality({j \in 1..n :
                        \/ less[j][i]
                        \/ (~less[i][j] /\ j < i)})
    IN  [p \in 1..n |-> seq[CHOOSE i \in 1..n : pos(i) = p]]

\* Math.round(num / den) for den > 0: the nearest integer, halves upwards.
MathRound(num, den) == (2 * num + den) \div (2 * den)

\* hasEvaluated inside averageScores: sumGiven > 0.
SumGivenPositive(evals, scorer) == SumValues(evals[scorer]) > 0

\* The names averageScores lists: every key of every evaluator's object.
Subjects(evals) == UNION {DOMAIN evals[e] : e \in DOMAIN evals}

RECURSIVE TotalOver(_, _, _)
TotalOver(evals, scorers, name) ==
    IF scorers = {} THEN 0
    ELSE LET e == CHOOSE x \in scorers : TRUE
         IN  (IF name \in DOMAIN evals[e] THEN evals[e][name] ELSE 0)
             + TotalOver(evals, scorers \ {e}, name)

\* totals[name] of averageScores.
Totals(evals, name) == TotalOver(evals, DOMAIN evals, name)

\* counts[name] of averageScores.
Counts(evals, name) ==
    Cardinality({e \in DOMAIN evals :
                    name \in DOMAIN evals[e] /\ SumGivenPositive(evals, e)})

\* Mutant of averageScore: the total is not divided by the count.
averageScoreTotal(evals, name) == MathRound(Totals(evals, name), 1)

\* score of averageScores' entry for name.
averageScore(evals, name) ==
    LET c == Counts(evals, name)
    IN  MathRound(Totals(evals, name), IF c = 0 THEN 1 ELSE c)

\* averageScores: the entries in key order, then sorted by falling score.
averageScores(evals) ==
    LET names == SelectSeq(keyOrder, LAMBDA k : k \in Subjects(evals))
        entries == [i \in 1..Len(names) |->
                      [name |-> names[i], score |-> averageScore(evals, names[i])]]
    IN  StableSort(entries,
                   [i \in DOMAIN entries |-> [j \in DOMAIN entries |->
                       entries[i].score > entries[j].score]])

\* hasEvaluated[name]: the scorer called name has given a positive sum.
hasEvaluated(evals, name) == SumValues(GetOrEmpty(evals, name)) > 0

\* The entries the leaderboard lists: averageScores.slice(0, 5) once one
\* participant has evaluated, none (a message instead) before that.
leaderboard(evals) ==
    LET all == averageScores(evals)
    IN  IF \E name \in Participants : hasEvaluated(evals, name)
        THEN SubSeq(all, 1, IF Len(all) < LeaderboardSize
                            THEN Len(all) ELSE LeaderboardSize)
        ELSE <<>>

\* A rational num / den with den > 0.
Rat(num, den) == [num |-> num, den |-> den]

RatLess(a, b) == a.num * b.den < b.num * a.den

\* |a - b| < k
RatCloser(a, b, k) ==
    LET d == a.num * b.den - b.num * a.den
    IN  (IF d < 0 THEN 0 - d ELSE d) < k * a.den * b.den

\* The comparator table (a, b) => a.x - b.x for the centres listed.
ByCenter(centers) ==
    [i \in DOMAIN centers |-> [j \in DOMAIN centers |->
        RatLess(centers[i], centers[j])]]

\* Mutant of ClampCenter: centerX is the mean itself.
ClampCenterUnclamped(sum, count) == Rat(sum, count)

\* Math.min(97, Math.max(3, sum / count))
ClampCenter(sum, count) ==
    IF sum < CenterMin * count THEN Rat(CenterMin, 1)
    ELSE IF sum > CenterMax * count THEN Rat(CenterMax, 1)
    ELSE Rat(sum, count)

\* sorted of graphDisplayItems: by score, ties by name.localeCompare.
SortedScores(rows) ==
    StableSort(rows,
        [i \in DOMAIN rows |-> [j \in DOMAIN rows |->
            \/ rows[i].score < rows[j].score
            \/ (rows[i].score = rows[j].score
                /\ localeCompareRank(rows[i].name) < localeCompareRank(rows[j].name))]])

\* Mutant of GroupLoop: the band is measured from the first member of the
\* group being filled instead of the last.
RECURSIVE GroupLoopFromFirst(_, _, _, _)
GroupLoopFromFirst(sorted, i, groups, currentGroup) ==
    IF i > Len(sorted)
    THEN IF Len(currentGroup) > 0 THEN Append(groups, currentGroup) ELSE groups
    ELSE LET person == sorted[i]
             first == currentGroup[1]
             diff == person.score - first.score
             inRange == /\ Len(currentGroup) > 0
                        /\ (IF diff < 0 THEN 0 - diff ELSE diff) <= SCORE_BAND
         IN  IF inRange
             THEN GroupLoopFromFirst(sorted, i + 1, groups,
                                     Append(currentGroup, person))
             ELSE GroupLoopFromFirst(sorted, i + 1,
                                     IF Len(currentGroup) > 0
                                     THEN Append(groups, currentGroup) ELSE groups,
                                     <<person>>)

\* The grouping loop of graphDisplayItems over sorted[i..]: groups closed so
\* far and the group being filled.
RECURSIVE GroupLoop(_, _, _, _)
GroupLoop(sorted, i, groups, currentGroup) ==
    IF i > Len(sorted)
    THEN IF Len(currentGroup) > 0 THEN Append(groups, currentGroup) ELSE groups
    ELSE LET person == sorted[i]
             last == currentGroup[Len(currentGroup)]
             diff == person.score - last.score
             inRange == /\ Len(currentGroup) > 0
                        /\ (IF diff < 0 THEN 0 - diff ELSE diff) <= SCORE_BAND
         IN  IF inRange
             THEN GroupLoop(sorted, i + 1, groups, Append(currentGroup, person))
             ELSE GroupLoop(sorted, i + 1,
                            IF Len(currentGroup) > 0
                            THEN Append(groups, currentGroup) ELSE groups,
                            <<person>>)

\* Mutant of Groups: the group still being filled when the loop ends is
\* not pushed.
GroupsWithoutLast(rows) ==
    LET groups == GroupLoop(SortedScores(rows), 1, <<>>, <<>>)
    IN  SubSeq(groups, 1, Len(groups) - 1)

Groups(rows) == GroupLoop(SortedScores(rows), 1, <<>>, <<>>)

RECURSIVE SumScores(_, _)
SumScores(members, n) ==
    IF n = 0 THEN 0 ELSE members[n].score + SumScores(members, n - 1)

\* groups.map(...): one display item per group, before the stagger.
ItemOfGroup(members) ==
    [type |-> IF Len(members) = 1 THEN "single" ELSE "cluster",
     centerX |-> ClampCenter(SumScores(members, Len(members)), Len(members)),
     members |-> members,
     staggered |-> FALSE,
     yOffset |-> 0]

\* The yOffset the stagger loop sets for the single at index idx, given
\* singleIndices; staggered is false when the loop leaves it unset.
StaggerOf(items, idx) ==
    LET singleIndices == SelectSeq([i \in 1..Len(items) |-> i],
                                   LAMBDA i : items[i].type = "single")
        near == SelectSeq(singleIndices, LAMBDA s :
                    RatCloser(items[s].centerX, items[idx].centerX,
                              STAGGER_THRESHOLD))
        nearby == StableSort(near,
                      ByCenter([p \in DOMAIN near |-> items[near[p]].centerX]))
        name == items[idx].members[1].name
        found == {p \in 1..Len(nearby) : items[nearby[p]].members[1].name = name}
        myPos == (CHOOSE p \in found : \A q \in found : p <= q) - 1
    IN  IF Len(nearby) < 2 \/ found = {}
        THEN [staggered |-> FALSE, yOffset |-> 0]
        ELSE [staggered |-> TRUE,
              yOffset |-> IF myPos % 2 = 0 THEN VERTICAL_OFFSET
                                           ELSE 0 - VERTICAL_OFFSET]

\* graphDisplayItems for the rows of currentScores.
graphDisplayItems(rows) ==
    LET groups == Groups(rows)
        items == [g \in 1..Len(groups) |-> ItemOfGroup(groups[g])]
        staggered == [idx \in 1..Len(items) |->
            IF items[idx].type = "single"
            THEN LET st == StaggerOf(items, idx)
                 IN  [items[idx] EXCEPT !.staggered = st.staggered,
                                        !.yOffset = st.yOffset]
            ELSE items[idx]]
    IN  StableSort(staggered,
                   ByCenter([idx \in DOMAIN staggered |-> staggered[idx].centerX]))

---------------------------------------------------------------------------
(* Inputs *)

\* Texts a number field can report (its value is "" when the typed text is
\* no number).
NumberTexts ==
    { <<>>, <<"1", "3">>, <<"1", "5", "0">>, <<"-", "5">>,
      <<"2", "6", ".", "7">> }

\* Texts the number field holds when it is left.
BlurTexts == { <<>>, <<"1", "3">> }

\* Positions the range input is dragged to.
SliderPositions == {0, 40}

\* Texts typed into the axis-label field.
AxisLabels == {"", "maeryeokdo"}

FileNoEvaluations ==
    JSONStringify(<<[key |-> "axisLabel", value |-> JStr("maeryeokdo")]>>)

FileOutOfRange ==
    JSONStringify(<<
        [key |-> "allEvaluations", value |-> JObj(<<
            [key |-> "Jiun", value |-> JObj(<<
                [key |-> "Daeseong", value |-> JNum(150)],
                [key |-> "Junho", value |-> JNum(20)]>>)],
            [key |-> "Daeseong", value |-> JObj(<<
                [key |-> "Jiun", value |-> JNum(0 - 5)],
                [key |-> "Junho", value |-> JNum(5)]>>)]>>)]>>)

FileAllZero ==
    JSONStringify(<<
        [key |-> "axisLabel", value |-> JStr("")],
        [key |-> "allEvaluations", value |-> JObj(<<
            [key |-> "Jiun", value |-> JObj(<<
                [key |-> "Daeseong", value |-> JNum(0)],
                [key |-> "Junho", value |-> JNum(0)]>>)]>>)]>>)

FileSpread ==
    JSONStringify(<<
        [key |-> "axisLabel", value |-> JStr("maeryeokdo")],
        [key |-> "allEvaluations", value |-> JObj(<<
            [key |-> "Jiun", value |-> JObj(<<
                [key |-> "Daeseong", value |-> JNum(13)],
                [key |-> "Junho", value |-> JNum(26)],
                [key |-> "Haun", value |-> JNum(40)]>>)],
            [key |-> Outsider, value |-> JObj(<<
                [key |-> "Jiun", value |-> JNum(50)]>>)]>>)]>>)

\* Files the user can pick in the file dialog.
SampleFiles ==
    {BrokenText, FileNoEvaluations, FileOutOfRange, FileAllZero, FileSpread}

\* Contents of local storage left by something else before the first load.
InitialStorage == {NoItem, BrokenText}

---------------------------------------------------------------------------
(* History records *)

\* What lastOp holds: the handler's kind and the inputs it was given.
\*   called/score: whether the handler called updateScore, and with what;
\*   asked/answer: whether confirm() was shown, and the user's answer;
\*   wrote: whether the persist effect ran after the handler;
\*   shown: the toast the handler itself raised with showToast, if any.
Op(kind) ==
    [kind |-> kind, subject |-> "", text |-> <<>>, called |-> FALSE,
     score |-> 0, label |-> "", file |-> NoFile, result |-> "",
     asked |-> FALSE, answer |-> FALSE, wrote |-> FALSE, shown |-> NoToast]

---------------------------------------------------------------------------
(* The persist effect *)

\* localStorage.setItem(STORAGE_KEY, JSON.stringify({allEvaluations,
\* axisLabel})): the item after the call, which throws when quotaOk is false.
StorageAfterSetItem(old, evals, label, quotaOk) ==
    IF quotaOk THEN PersistedSnapshot(evals, label) ELSE old

\* Mutant of ToastAfterSetItem: an empty catch, as in the initialisers.
ToastAfterSetItemSilent(shown, quotaOk) == shown

\* The toast after the effect: the catch branch replaces the handler's toast.
ToastAfterSetItem(shown, quotaOk) ==
    IF quotaOk THEN shown ELSE Toast("storage full", "error")

\* The effect as it runs after a render that changed allEvaluations or
\* axisLabel; shown is the toast the handler itself set.
PersistEffect(evals, label, shown, quotaOk) ==
    /\ storage' = StorageAfterSetItem(storage, evals, label, quotaOk)
    /\ toast' = ToastAfterSetItem(shown, quotaOk)
    /\ lastWrite' = IF quotaOk THEN "ok" ELSE "failed"

\* A handler that changes neither dependency: the effect does not run.
NoPersist ==
    /\ storage' = storage
    /\ lastWrite' = lastWrite

\* Every handler counts as one step of the run and records itself.
Step(op) ==
    /\ steps' = steps + 1
    /\ lastOp' = op

---------------------------------------------------------------------------
(* Start-up *)

\* The component mounts: both initialisers read local storage, then the
\* persist effect runs for the first render.
Mount(saved, quotaOk) ==
    /\ allEvaluations = InitialAllEvaluations(saved)
    /\ currentScorer = "Jiun"
    /\ axisLabel = InitialAxisLabel(saved)
    /\ toast = ToastAfterSetItem(NoToast, quotaOk)
    /\ storage = StorageAfterSetItem(saved, allEvaluations, axisLabel, quotaOk)
    /\ lastWrite = IF quotaOk THEN "ok" ELSE "failed"
    /\ pendingReads = <<>>

Init ==
    /\ \E saved \in InitialStorage, quotaOk \in BOOLEAN : Mount(saved, quotaOk)
    /\ exportedFile = NoFile
    /\ exportedFrom = NoFile
    /\ lastOp = Op("mount")
    /\ steps = 0

\* The page is reloaded: the component state is rebuilt from local storage
\* and the reads in flight are dropped with the old page.
Reload(quotaOk) ==
    /\ Step([Op("reload") EXCEPT !.wrote = TRUE])
    /\ allEvaluations' = InitialAllEvaluations(storage)
    /\ currentScorer' = "Jiun"
    /\ axisLabel' = InitialAxisLabel(storage)
    /\ PersistEffect(allEvaluations', axisLabel', NoToast, quotaOk)
    /\ pendingReads' = <<>>
    /\ UNCHANGED <<exportedFile, exportedFrom>>

---------------------------------------------------------------------------
(* Score inputs *)

\* The subjects whose inputs the run uses: the first MaxEdited rows of the
\* current scorer's panel.
EditedSubjects ==
    LET rows == currentScores(allEvaluations, currentScorer)
    IN  {rows[i].name : i \in 1..(IF Len(rows) < MaxEdited THEN Len(rows) ELSE MaxEdited)}

\* What onChange of the number field passes to updateScore, if anything.
NumberChangeScore(text) ==
    LET v == parseInt(text)
    IN  [called |-> ~isNaN(v), score |-> ClampScore(v.n)]

\* What onBlur of the number field passes to updateScore, if anything.
NumberBlurScore(text) ==
    LET v == parseInt(text)
    IN  [called |-> isNaN(v) \/ text = <<>>, score |-> 0]

\* What onChange of the range input passes to updateScore.
SliderScore(position) ==
    [called |-> TRUE, score |-> parseInt(NumberToText(position)).n]

\* A score input: updateScore when the handler calls it, then the persist
\* effect (the updater always builds a new object).
ScoreInput(kind, subject, text, call, quotaOk) ==
    /\ Step([Op(kind) EXCEPT !.subject = subject, !.text = text,
                             !.called = call.called, !.score = call.score,
                             !.wrote = call.called])
    /\ IF call.called
       THEN /\ allEvaluations' =
                  updateScore(allEvaluations, currentScorer, subject, call.score)
            /\ PersistEffect(allEvaluations', axisLabel, toast, quotaOk)
       ELSE /\ quotaOk
            /\ allEvaluations' = allEvaluations
            /\ toast' = toast
            /\ NoPersist
    /\ UNCHANGED <<currentScorer, axisLabel, pendingReads, exportedFile,
                   exportedFrom>>

NumberChange(subject, text, quotaOk) ==
    ScoreInput("numberChange", subject, text, NumberChangeScore(text), quotaOk)

NumberBlur(subject, text, quotaOk) ==
    ScoreInput("numberBlur", subject, text, NumberBlurScore(text), quotaOk)

SliderChange(subject, position, quotaOk) ==
    /\ position # ClampScore(allEvaluations[currentScorer][subject])
    /\ ScoreInput("slider", subject, NumberToText(position),
                  SliderScore(position), quotaOk)

---------------------------------------------------------------------------
(* Scorer buttons and axis label *)

SelectScorer(name) ==
    /\ name # currentScorer
    /\ Step([Op("select") EXCEPT !.subject = name])
    /\ currentScorer' = name
    /\ NoPersist
    /\ UNCHANGED <<allEvaluations, axisLabel, toast, pendingReads,
                   exportedFile, exportedFrom>>

SetAxisLabel(label, quotaOk) ==
    /\ label # axisLabel
    /\ Step([Op("axis") EXCEPT !.label = label, !.wrote = TRUE])
    /\ axisLabel' = label
    /\ PersistEffect(allEvaluations, axisLabel', toast, quotaOk)
    /\ UNCHANGED <<allEvaluations, currentScorer, pendingReads, exportedFile,
                   exportedFrom>>

---------------------------------------------------------------------------
(* Export and import *)

exportToJson ==
    /\ Step([Op("export") EXCEPT !.shown = Toast("downloaded", "success")])
    /\ exportedFile' = ExportedText(allEvaluations, axisLabel)
    /\ exportedFrom' = [allEvaluations |-> allEvaluations, axisLabel |-> axisLabel]
    /\ toast' = Toast("downloaded", "success")
    /\ NoPersist
    /\ UNCHANGED <<allEvaluations, currentScorer, axisLabel, pendingReads>>

\* Files the file dialog offers: the samples and the file exported before.
SelectableFiles ==
    SampleFiles \cup (IF exportedFile = NoFile THEN {} ELSE {exportedFile})

\* importFromJson: the change handler of the file input starts a read; the
\* onload callback it installs closes over the allEvaluations of the render
\* in which the file was chosen.
importFromJson(file) ==
    /\ Len(pendingReads) < MaxPending
    /\ Step([Op("importSelect") EXCEPT !.file = file])
    /\ pendingReads' = Append(pendingReads,
                              [file |-> file, closure |-> allEvaluations])
    /\ NoPersist
    /\ UNCHANGED <<allEvaluations, currentScorer, axisLabel, toast,
                   exportedFile, exportedFrom>>

\* Mutant of OnloadOutcome: the axis label is taken from the file before
\* json.allEvaluations is tested.
OnloadOutcomeLabelFirst(text, closure, evals, label, answer) ==
    LET parsed == JSONParse(text)
        json == parsed.value
        newLabel == IF ~parsed.threw /\ Truthy(json, "axisLabel")
                    THEN json["axisLabel"].str ELSE label
    IN  IF parsed.threw \/ ~Truthy(json, "allEvaluations")
        THEN [result |-> "failed", asked |-> FALSE,
              allEvaluations |-> evals, axisLabel |-> newLabel,
              toast |-> Toast("import failed", "error")]
        ELSE IF HasPositiveScore(closure) /\ ~answer
        THEN [result |-> "declined", asked |-> TRUE,
              allEvaluations |-> evals, axisLabel |-> label,
              toast |-> NoToast]
        ELSE [result |-> "installed", asked |-> HasPositiveScore(closure),
              allEvaluations |-> EvaluationsOfJson(json["allEvaluations"]),
              axisLabel |-> newLabel,
              toast |-> Toast("imported", "success")]

\* Mutant of OnloadOutcome: the file's evaluators are merged into the
\* existing allEvaluations, as { ...allEvaluations, ...json.allEvaluations }.
OnloadOutcomeMerging(text, closure, evals, label, answer) ==
    LET parsed == JSONParse(text)
        json == parsed.value
        loaded == EvaluationsOfJson(json["allEvaluations"])
    IN  IF parsed.threw \/ ~Truthy(json, "allEvaluations")
        THEN [result |-> "failed", asked |-> FALSE,
              allEvaluations |-> evals, axisLabel |-> label,
              toast |-> Toast("import failed", "error")]
        ELSE IF HasPositiveScore(closure) /\ ~answer
        THEN [result |-> "declined", asked |-> TRUE,
              allEvaluations |-> evals, axisLabel |-> label,
              toast |-> NoToast]
        ELSE [result |-> "installed", asked |-> HasPositiveScore(closure),
              allEvaluations |->
                  [e \in DOMAIN evals \cup DOMAIN loaded |->
                      IF e \in DOMAIN loaded THEN loaded[e] ELSE evals[e]],
              axisLabel |-> IF Truthy(json, "axisLabel")
                            THEN json["axisLabel"].str ELSE label,
              toast |-> Toast("imported", "success")]

\* The body of reader.onload: the outcome for the text read, the
\* allEvaluations the callback closes over, the current axis label and the
\* answer the user gives if confirm() is shown.
\*   failed:    JSON.parse threw or json.allEvaluations is falsy;
\*   declined:  confirm() returned false;
\*   installed: setAllEvaluations / setAxisLabel were called.
OnloadOutcome(text, closure, evals, label, answer) ==
    LET parsed == JSONParse(text)
        json == parsed.value
    IN  IF parsed.threw \/ ~Truthy(json, "allEvaluations")
        THEN [result |-> "failed", asked |-> FALSE,
              allEvaluations |-> evals, axisLabel |-> label,
              toast |-> Toast("import failed", "error")]
        ELSE IF HasPositiveScore(closure) /\ ~answer
        THEN [result |-> "declined", asked |-> TRUE,
              allEvaluations |-> evals, axisLabel |-> label,
              toast |-> NoToast]
        ELSE [result |-> "installed", asked |-> HasPositiveScore(closure),
              allEvaluations |-> EvaluationsOfJson(json["allEvaluations"]),
              axisLabel |-> IF Truthy(json, "axisLabel")
                            THEN json["axisLabel"].str ELSE label,
              toast |-> Toast("imported", "success")]

RemoveAt(seq, i) ==
    [j \in 1..(Len(seq) - 1) |-> IF j < i THEN seq[j] ELSE seq[j + 1]]

\* reader.onload fires for the i-th read in flight.
ReaderOnload(i, answer, quotaOk) ==
    LET read == pendingReads[i]
        out == OnloadOutcome(read.file, read.closure, allEvaluations,
                             axisLabel, answer)
        installed == out.result = "installed"
    IN  /\ Step([Op("onload") EXCEPT !.file = read.file, !.result = out.result,
                                     !.asked = out.asked, !.answer = answer,
                                     !.wrote = installed,
                                     !.shown = IF out.result = "declined"
                                               THEN NoToast ELSE out.toast])
        /\ out.asked \/ answer
        /\ pendingReads' = RemoveAt(pendingReads, i)
        /\ allEvaluations' = out.allEvaluations
        /\ axisLabel' = out.axisLabel
        /\ IF installed
           THEN PersistEffect(allEvaluations', axisLabel', out.toast, quotaOk)
           ELSE /\ quotaOk
                /\ toast' = (IF out.result = "failed" THEN out.toast ELSE toast)
                /\ NoPersist
        /\ UNCHANGED <<currentScorer, exportedFile, exportedFrom>>

---------------------------------------------------------------------------
(* Toasts *)

\* saveGraphAsImage: toPng resolves or rejects, and a toast says which.
saveGraphAsImage(pngOk) ==
    /\ toast' = IF pngOk THEN Toast("image saved", "success")
                         ELSE Toast("image failed", "error")
    /\ Step([Op("saveImage") EXCEPT !.result = IF pngOk THEN "saved" ELSE "failed",
                                    !.shown = toast'])
    /\ NoPersist
    /\ UNCHANGED <<allEvaluations, currentScorer, axisLabel, pendingReads,
                   exportedFile, exportedFrom>>

\* The 2500 ms timer of the toast effect fires.
ToastTimeout ==
    /\ toast # NoToast
    /\ Step(Op("toastTimeout"))
    /\ toast' = NoToast
    /\ NoPersist
    /\ UNCHANGED <<allEvaluations, currentScorer, axisLabel, pendingReads,
                   exportedFile, exportedFrom>>

---------------------------------------------------------------------------
(* Specification *)

\* The scorer buttons pressed in a run.
PressedScorers == {participantsNames[i] : i \in 1..MaxScorers}

\* The run has handlers left to execute.
Within(bound) == steps < bound

Next ==
    \/ /\ Within(MaxSteps)
       /\ \E s \in EditedSubjects, t \in NumberTexts, q \in BOOLEAN :
              NumberChange(s, t, q)
    \/ /\ Within(MaxSteps)
       /\ \E s \in EditedSubjects, t \in BlurTexts, q \in BOOLEAN :
              NumberBlur(s, t, q)
    \/ /\ Within(MaxSteps)
       /\ \E s \in EditedSubjects, p \in SliderPositions, q \in BOOLEAN :
              SliderChange(s, p, q)
    \/ /\ Within(MaxSteps)
       /\ \E n \in PressedScorers : SelectScorer(n)
    \/ /\ Within(MaxSteps)
       /\ \E l \in AxisLabels, q \in BOOLEAN : SetAxisLabel(l, q)
    \/ /\ Within(MaxSteps)
       /\ exportToJson
    \/ /\ Within(MaxSteps)
       /\ \E f \in SelectableFiles : importFromJson(f)
    \/ /\ Within(MaxSteps)
       /\ \E i \in 1..Len(pendingReads), a \in BOOLEAN, q \in BOOLEAN :
              ReaderOnload(i, a, q)
    \/ /\ Within(MaxSteps)
       /\ \E k \in BOOLEAN : saveGraphAsImage(k)
    \/ /\ Within(MaxSteps)
       /\ ToastTimeout
    \/ /\ Within(MaxSteps)
       /\ \E q \in BOOLEAN : Reload(q)

Spec == Init /\ [][Next]_vars

\* The handlers that never import: score inputs, scorer buttons, the axis
\* label and reloads.
EditNext ==
    \/ /\ Within(MaxEditSteps)
       /\ \E s \in EditedSubjects, t \in NumberTexts, q \in BOOLEAN :
              NumberChange(s, t, q)
    \/ /\ Within(MaxEditSteps)
       /\ \E s \in EditedSubjects, t \in BlurTexts, q \in BOOLEAN :
              NumberBlur(s, t, q)
    \/ /\ Within(MaxEditSteps)
       /\ \E s \in EditedSubjects, p \in SliderPositions, q \in BOOLEAN :
              SliderChange(s, p, q)
    \/ /\ Within(MaxEditSteps)
       /\ \E n \in PressedScorers : SelectScorer(n)
    \/ /\ Within(MaxEditSteps)
       /\ \E l \in AxisLabels, q \in BOOLEAN : SetAxisLabel(l, q)
    \/ /\ Within(MaxEditSteps)
       /\ \E q \in BOOLEAN : Reload(q)

EditSpec == Init /\ [][EditNext]_vars

\* Export and re-import of the exported file, between edits of the axis
\* label and of the scores, with every storage write succeeding.
RoundTripNext ==
    \/ /\ Within(MaxRoundTripSteps)
       /\ \E s \in EditedSubjects, p \in SliderPositions :
              SliderChange(s, p, TRUE)
    \/ /\ Within(MaxRoundTripSteps)
       /\ \E l \in AxisLabels : SetAxisLabel(l, TRUE)
    \/ /\ Within(MaxRoundTripSteps)
       /\ exportToJson
    \/ /\ Within(MaxRoundTripSteps)
       /\ \E f \in SelectableFiles \ SampleFiles : importFromJson(f)
    \/ /\ Within(MaxRoundTripSteps)
       /\ \E i \in 1..Len(pendingReads), a \in BOOLEAN :
              ReaderOnload(i, a, TRUE)

RoundTripSpec == Init /\ [][RoundTripNext]_vars

\* The matrix after the user has set every preset score of the first
\* participant back to 0.
ClearedData ==
    [scorer \in Participants |-> [subject \in Participants \ {scorer} |-> 0]]

\* The item an earlier session left after the scores were cleared.
SavedCleared == PersistedSnapshot(ClearedData, DefaultAxisLabel)

\* The page is opened on an empty storage or on the cleared matrix.
ImportInit ==
    /\ \E saved \in {NoItem, SavedCleared} : Mount(saved, TRUE)
    /\ exportedFile = NoFile
    /\ exportedFrom = NoFile
    /\ lastOp = Op("mount")
    /\ steps = 0

\* File reads interleaved with score edits and scorer buttons, with every
\* storage write succeeding.
ImportNext ==
    \/ /\ Within(MaxImportSteps)
       /\ \E s \in EditedSubjects, p \in SliderPositions :
              SliderChange(s, p, TRUE)
    \/ /\ Within(MaxImportSteps)
       /\ \E n \in PressedScorers : SelectScorer(n)
    \/ /\ Within(MaxImportSteps)
       /\ \E f \in SampleFiles : importFromJson(f)
    \/ /\ Within(MaxImportSteps)
       /\ \E i \in 1..Len(pendingReads), a \in BOOLEAN :
              ReaderOnload(i, a, TRUE)

ImportSpec == ImportInit /\ [][ImportNext]_vars

\* Scores an earlier session left for the subjects below.
SavedScoreSamples == {13, 52, 100}

\* The subjects of the first scorer whose scores the earlier session edited.
SavedSubjects == {"Daeseong", "Junho", "Haun"}

\* The second scorer's score for Junho in the earlier session.
SavedSecondSamples == {0, 55}

\* Matrices an earlier session reached with the score inputs: the initial
\* matrix with the first scorer's scores for SavedSubjects and the second
\* scorer's score for Junho edited.
SavedMatrices ==
    {[getInitialData EXCEPT
         !["Jiun"] = [n \in DOMAIN @ |-> IF n \in SavedSubjects THEN f[n] ELSE @[n]],
         !["Daeseong"]["Junho"] = g] :
       f \in [SavedSubjects -> SavedScoreSamples], g \in SavedSecondSamples}

\* The page is opened on the item such a session saved.
DerivedInit ==
    /\ \E m \in SavedMatrices :
           Mount(PersistedSnapshot(m, DefaultAxisLabel), TRUE)
    /\ exportedFile = NoFile
    /\ exportedFrom = NoFile
    /\ lastOp = Op("mount")
    /\ steps = 0

\* Score inputs and scorer buttons, which are what changes currentScores
\* and the averages; every storage write succeeds.
DerivedNext ==
    \/ /\ Within(MaxDerivedSteps)
       /\ \E s \in EditedSubjects, t \in NumberTexts : NumberChange(s, t, TRUE)
    \/ /\ Within(MaxDerivedSteps)
       /\ \E s \in EditedSubjects, p \in SliderPositions :
              SliderChange(s, p, TRUE)
    \/ /\ Within(MaxDerivedSteps)
       /\ \E n \in PressedScorers : SelectScorer(n)

DerivedSpec == DerivedInit /\ [][DerivedNext]_vars

---------------------------------------------------------------------------
(* Properties *)

\* The local-storage item parses to exactly the current allEvaluations and
\* axisLabel, and holds nothing else.
SnapshotIsCurrent ==
    /\ storage # NoItem
    /\ storage.wellFormed
    /\ LET members == storage.members
           at(k) == {i \in DOMAIN members : members[i].key = k}
       IN  /\ {members[i].key : i \in DOMAIN members} = {"allEvaluations", "axisLabel"}
           /\ Len(members) = 2
           /\ \A i \in at("axisLabel") : members[i].value = JStr(axisLabel)
           /\ \A i \in at("allEvaluations") :
                  EvaluationsOfJson(members[i].value) = allEvaluations

\* C1: in every reachable state allEvaluations maps evaluator names to
\* mappings from subject names to integer scores in 0..100; a successful
\* import never installs a score outside that range.
C1_ScoresInRange ==
    \A e \in DOMAIN allEvaluations : \A n \in DOMAIN allEvaluations[e] :
        /\ allEvaluations[e][n] \in Int
        /\ allEvaluations[e][n] >= 0
        /\ allEvaluations[e][n] <= 100

\* An evaluator whose submission is not all zeros.
NonEmptySubmission(e) ==
    \E n \in DOMAIN allEvaluations[e] : allEvaluations[e][n] # 0

\* The non-empty evaluators that scored name.
RatersOf(name) ==
    {e \in DOMAIN allEvaluations :
        name \in DOMAIN allEvaluations[e] /\ NonEmptySubmission(e)}

\* C2: for every subject the leaderboard score is the rounded arithmetic
\* mean of the scores given by exactly the evaluators with a non-empty (not
\* all zeros) submission, and 0 when no such evaluator scored the subject.
C2_AverageOverNonEmpty ==
    \A name \in Subjects(allEvaluations) :
        averageScore(allEvaluations, name) =
            IF RatersOf(name) = {} THEN 0
            ELSE MathRound(TotalOver(allEvaluations, RatersOf(name), name),
                           Cardinality(RatersOf(name)))

\* C3: importing the file exportToJson produced in state S, with the
\* overwrite accepted, yields the allEvaluations and the axisLabel of S,
\* whatever the state the import starts from.
C3_ExportImportRoundTrip ==
    [][(/\ lastOp'.kind = "onload"
        /\ lastOp'.file = exportedFile
        /\ lastOp'.result = "installed")
       => /\ allEvaluations' = exportedFrom.allEvaluations
          /\ axisLabel' = exportedFrom.axisLabel]_vars

\* C4: after every change of allEvaluations or axisLabel whose storage write
\* succeeds, the local-storage item holds exactly the current allEvaluations
\* and axisLabel (a change without a write would leave lastWrite "ok" over a
\* stale item); selecting a scorer does not change the item.
C4_AutoSave ==
    /\ [](lastWrite = "ok" => SnapshotIsCurrent)
    /\ [][lastOp'.kind = "select" => storage' = storage]_vars

\* C4 happens: a successful import that also replaced the axis label was saved.
C4_Witness ==
    /\ lastOp.kind = "onload"
    /\ lastOp.result = "installed"
    /\ lastWrite = "ok"
    /\ axisLabel = "maeryeokdo"
    /\ SnapshotIsCurrent

\* C5: reloading from a successfully written snapshot yields the same
\* allEvaluations and the same axisLabel as before the reload, for every
\* axis label the user can type, the empty one included.
C5_ReloadRestores ==
    [][(lastOp'.kind = "reload" /\ lastWrite = "ok")
       => /\ allEvaluations' = allEvaluations
          /\ axisLabel' = axisLabel]_vars


\* A file text that is not JSON, or JSON without an allEvaluations member.
InvalidImport(text) ==
    \/ ~text.wellFormed
    \/ \A i \in DOMAIN text.members : text.members[i].key # "allEvaluations"

\* C6: loading a file that is not valid JSON, or valid JSON without an
\* allEvaluations member, leaves allEvaluations, axisLabel and currentScorer
\* unchanged and raises an error toast; the read is dropped, nothing is
\* written and nothing is retried.
C6_InvalidImportRejected ==
    [][(lastOp'.kind = "onload" /\ InvalidImport(lastOp'.file))
       => /\ allEvaluations' = allEvaluations
          /\ axisLabel' = axisLabel
          /\ currentScorer' = currentScorer
          /\ toast'.type = "error"
          /\ storage' = storage
          /\ Len(pendingReads') = Len(pendingReads) - 1]_vars

\* C6 happens: a well-formed file without allEvaluations, carrying an axis
\* label other than the current one, was loaded and refused.
C6_Witness ==
    /\ lastOp.kind = "onload"
    /\ lastOp.file = FileNoEvaluations
    /\ axisLabel # "maeryeokdo"
    /\ toast.type = "error"
    /\ pendingReads = <<>>

\* The handlers after which the persist effect has nothing to write.
QuietKinds == {"select", "export", "importSelect", "saveImage", "toastTimeout"}

\* C7: when the local-storage write fails an error toast is raised, the
\* in-memory allEvaluations and axisLabel keep the new values, the stored
\* item stays the last one written successfully, and no later handler that
\* changes neither value writes again.
C7_QuotaFailure ==
    /\ []((lastOp.wrote /\ lastWrite = "failed")
          => /\ toast.type = "error"
             /\ (lastOp.called =>
                    allEvaluations[currentScorer][lastOp.subject] = lastOp.score)
             /\ (lastOp.kind = "axis" => axisLabel = lastOp.label)
             /\ (lastOp.kind = "onload" =>
                    \A i \in DOMAIN lastOp.file.members :
                        lastOp.file.members[i].key = "allEvaluations"
                        => allEvaluations =
                               EvaluationsOfJson(lastOp.file.members[i].value)))
    /\ [][/\ (lastOp'.wrote /\ lastWrite' = "failed") => storage' = storage
          /\ lastOp'.kind \in QuietKinds => storage' = storage]_vars

\* C7 happens: an axis-label edit whose write failed after an earlier write
\* had succeeded.
C7_Witness ==
    /\ lastOp.kind = "axis"
    /\ lastWrite = "failed"
    /\ axisLabel = lastOp.label
    /\ toast.type = "error"
    /\ storage # NoItem
    /\ storage.wellFormed

\* C8: any two distinct single-label display items whose centerX are less
\* than STAGGER_THRESHOLD apart get different vertical offsets, one +26 and
\* the other -26.
C8_NearSinglesStaggered ==
    LET items == graphDisplayItems(currentScores(allEvaluations, currentScorer))
    IN  \A i, j \in 1..Len(items) :
            (/\ i # j
             /\ items[i].type = "single"
             /\ items[j].type = "single"
             /\ RatCloser(items[i].centerX, items[j].centerX, 18))
            => /\ items[i].staggered
               /\ items[j].staggered
               /\ {items[i].yOffset, items[j].yOffset} = {26, 0 - 26}

\* C9: without imports the evaluators are exactly the 17 participants, each
\* evaluator's subjects are exactly the other 16, and currentScorer is a
\* participant.
C9_ParticipantsFixed ==
    /\ Cardinality(Participants) = 17
    /\ DOMAIN allEvaluations = Participants
    /\ \A e \in Participants :
           /\ DOMAIN allEvaluations[e] = Participants \ {e}
           /\ Cardinality(DOMAIN allEvaluations[e]) = 16
    /\ currentScorer \in Participants

\* C9 happens: another scorer was selected and one of its scores edited.
C9_Witness ==
    /\ lastOp.called
    /\ currentScorer # "Jiun"
    /\ lastOp.score # 0
    /\ allEvaluations[currentScorer][lastOp.subject] = lastOp.score
    /\ allEvaluations # getInitialData

\* The integer a number-field text stands for, none for a text that holds
\* no leading integer.
TypedInteger(text) ==
    CASE text = <<"1", "3">>           -> [some |-> TRUE, v |-> 13]
      [] text = <<"1", "5", "0">>      -> [some |-> TRUE, v |-> 150]
      [] text = <<"-", "5">>           -> [some |-> TRUE, v |-> 0 - 5]
      [] text = <<"2", "6", ".", "7">> -> [some |-> TRUE, v |-> 26]
      [] OTHER                         -> [some |-> FALSE, v |-> 0]

\* C10: a change of the number field whose text parses to an integer v
\* stores min(100, max(0, v)) for that subject; a change whose text does not
\* parse stores nothing; leaving the field with an empty or unparsable text
\* stores 0.
C10_NumberInputClamped ==
    [][/\ lastOp'.kind = "numberChange" =>
            LET typed == TypedInteger(lastOp'.text)
                clamped == IF typed.v < 0 THEN 0
                           ELSE IF typed.v > 100 THEN 100 ELSE typed.v
            IN  IF typed.some
                THEN allEvaluations'[currentScorer][lastOp'.subject] = clamped
                ELSE allEvaluations' = allEvaluations
       /\ (lastOp'.kind = "numberBlur" /\ ~TypedInteger(lastOp'.text).some) =>
            allEvaluations'[currentScorer][lastOp'.subject] = 0]_vars

\* C10 happens: 150 was typed and 100 was stored.
C10_Witness ==
    /\ lastOp.kind = "numberChange"
    /\ lastOp.text = <<"1", "5", "0">>
    /\ allEvaluations[currentScorer][lastOp.subject] = 100

\* C11: when a read of a file that carries allEvaluations completes,
\* confirm() is shown exactly when the allEvaluations of that moment holds
\* a score greater than 0; a declined import leaves allEvaluations,
\* axisLabel, currentScorer and the toast as they were; with no score
\* greater than 0 the file is installed without a question.
C11_ConfirmWhenScored ==
    [][(lastOp'.kind = "onload" /\ lastOp'.result # "failed") =>
          /\ lastOp'.asked <=> HasPositiveScore(allEvaluations)
          /\ lastOp'.result = "declined" =>
                 /\ lastOp'.asked /\ ~lastOp'.answer
                 /\ allEvaluations' = allEvaluations
                 /\ axisLabel' = axisLabel
                 /\ currentScorer' = currentScorer
                 /\ toast' = toast
                 /\ lastOp'.shown = NoToast
          /\ ~HasPositiveScore(allEvaluations) =>
                 /\ ~lastOp'.asked
                 /\ lastOp'.result = "installed"]_vars

\* C19: whatever happened between the selection of the file and the end of
\* the read, allEvaluations holding a score greater than 0 is replaced only
\* after confirm() was shown.
C19_NoOverwriteWithoutConfirm ==
    [][(/\ lastOp'.kind = "onload"
        /\ lastOp'.result = "installed"
        /\ HasPositiveScore(allEvaluations))
       => (lastOp'.asked /\ lastOp'.answer)]_vars

\* The values a file's text gives for a top-level key.
ValuesIn(file, key) ==
    {file.members[i].value :
        i \in {j \in DOMAIN file.members : file.members[j].key = key}}

\* C12: an import that goes through makes allEvaluations exactly the
\* file's mapping, makes axisLabel the file's label when the file has a
\* non-empty one and leaves it alone otherwise, leaves currentScorer alone
\* and raises the success toast.
C12_ImportFrame ==
    [][(lastOp'.kind = "onload" /\ lastOp'.result = "installed") =>
          LET file == lastOp'.file
              labels == {v.str : v \in ValuesIn(file, "axisLabel")} \ {""}
          IN  /\ \A v \in ValuesIn(file, "allEvaluations") :
                     allEvaluations' = EvaluationsOfJson(v)
              /\ \A l \in labels : axisLabel' = l
              /\ labels = {} => axisLabel' = axisLabel
              /\ currentScorer' = currentScorer
              /\ lastOp'.shown = Toast("imported", "success")
              /\ toast' = Toast("imported", "success")]_vars

\* C12 happens: with the second scorer selected, a file naming two
\* evaluators and no label replaced the matrix of seventeen.
C12_Witness ==
    /\ lastOp.kind = "onload"
    /\ lastOp.result = "installed"
    /\ lastOp.file = FileOutOfRange
    /\ currentScorer = "Daeseong"
    /\ DOMAIN allEvaluations = {"Jiun", "Daeseong"}
    /\ axisLabel = DefaultAxisLabel
    /\ toast = Toast("imported", "success")

\* C13: a handler that calls updateScore(subject, s) sets the current
\* scorer's score for that subject to s and changes no other evaluator's
\* mapping, no other score of the current scorer, neither axisLabel nor
\* currentScorer; a scorer button changes currentScorer and nothing else.
C13_UpdateScoreFrame ==
    [][/\ lastOp'.called =>
            LET scorer == currentScorer
                subject == lastOp'.subject
            IN  /\ DOMAIN allEvaluations' = DOMAIN allEvaluations
                /\ \A e \in DOMAIN allEvaluations \ {scorer} :
                       allEvaluations'[e] = allEvaluations[e]
                /\ DOMAIN allEvaluations'[scorer] = DOMAIN allEvaluations[scorer]
                /\ \A n \in DOMAIN allEvaluations[scorer] \ {subject} :
                       allEvaluations'[scorer][n] = allEvaluations[scorer][n]
                /\ allEvaluations'[scorer][subject] = lastOp'.score
                /\ axisLabel' = axisLabel
                /\ currentScorer' = currentScorer
       /\ lastOp'.kind = "select" =>
            /\ currentScorer' = lastOp'.subject
            /\ allEvaluations' = allEvaluations
            /\ axisLabel' = axisLabel
            /\ toast' = toast
            /\ storage' = storage
            /\ pendingReads' = pendingReads
            /\ exportedFile' = exportedFile]_vars

\* C13 happens: after the second scorer's button, one of that scorer's
\* scores was set while the first scorer's presets and the scorer's other
\* scores stayed.
C13_Witness ==
    /\ lastOp.called
    /\ currentScorer = "Daeseong"
    /\ allEvaluations["Daeseong"][lastOp.subject] = lastOp.score
    /\ lastOp.score > 0
    /\ allEvaluations["Jiun"] = getInitialData["Jiun"]
    /\ \A n \in DOMAIN allEvaluations["Daeseong"] \ {lastOp.subject} :
           allEvaluations["Daeseong"][n] = 0

\* The state of a start that found nothing usable in local storage: the
\* initial matrix, the first scorer, the default label, and no toast unless
\* the first write of the persist effect failed (then its error toast).
StartedFromDefaults ==
    /\ allEvaluations = getInitialData
    /\ \A scorer \in Participants :
           /\ scorer \notin DOMAIN allEvaluations[scorer]
           /\ \A subject \in Participants \ {scorer} :
                  allEvaluations[scorer][subject] =
                      IF scorer = participantsNames[1]
                      THEN jiunInitialScores[subject] ELSE 0
    /\ axisLabel = DefaultAxisLabel
    /\ currentScorer = participantsNames[1]
    /\ toast \in {NoToast, Toast("storage full", "error")}
    /\ lastWrite = "ok" => toast = NoToast

\* getItem returns null or a text JSON.parse rejects.
NothingUsable(item) == IF item = NoItem THEN TRUE ELSE ~item.wellFormed

\* C14: a first load, and every reload that finds no item or an item that
\* does not parse, starts from the initial matrix and the default label, both
\* together, with no error from the parsing.
C14_StartupFallback ==
    /\ [](steps = 0 => StartedFromDefaults)
    /\ [][(lastOp'.kind = "reload" /\ NothingUsable(storage))
            => StartedFromDefaults']_vars

\* C14 happens: a reload read the text that does not parse (earlier writes
\* had failed, so it was still there) and the defaults came back.
C14_Witness ==
    /\ lastOp.kind = "reload"
    /\ steps = 2
    /\ storage = BrokenText
    /\ allEvaluations = getInitialData
    /\ axisLabel = DefaultAxisLabel

\* The rows of the current scorer's panel and the display items drawn for
\* them.
Rows == currentScores(allEvaluations, currentScorer)

DisplayItems == graphDisplayItems(Rows)

\* The display items that hold the subject called name.
ItemsHolding(items, name) ==
    {x \in DOMAIN items :
        \E k \in DOMAIN items[x].members : items[x].members[k].name = name}

\* C15: order the current scorer's subjects by score, ties by name; two
\* subjects share a display item exactly when every two neighbours from the
\* one to the other in that order are at most SCORE_BAND apart; an item of
\* one member is a single and an item of two or more is a cluster.
\*   place[i]: the position of rows[i] in that order; at: its inverse;
\*   near[p]: the neighbours at positions p and p + 1 are within the band.
C15_GroupingRule ==
    \A rows \in {Rows}, items \in {DisplayItems} :
    \A place \in {[i \in DOMAIN rows |-> 1 + Cardinality({j \in DOMAIN rows :
                     \/ rows[j].score < rows[i].score
                     \/ /\ rows[j].score = rows[i].score
                        /\ localeCompareRank(rows[j].name)
                               < localeCompareRank(rows[i].name)})]} :
    \A at \in {[p \in DOMAIN rows |-> CHOOSE i \in DOMAIN rows : place[i] = p]} :
    \A near \in {[p \in 1..(Len(rows) - 1) |->
                     rows[at[p + 1]].score - rows[at[p]].score <= SCORE_BAND]} :
    \A itemsOf \in {[i \in DOMAIN rows |-> ItemsHolding(items, rows[i].name)]} :
        /\ \A i, j \in DOMAIN rows :
               place[i] < place[j] =>
                   ((itemsOf[i] \cap itemsOf[j] # {})
                       <=> \A p \in place[i]..(place[j] - 1) : near[p])
        /\ \A x \in DOMAIN items :
               /\ items[x].type = "single" <=> Len(items[x].members) = 1
               /\ items[x].type = "cluster" <=> Len(items[x].members) >= 2

\* C15 happens: after a score input the layout has a single and a cluster
\* whose ends are further apart than SCORE_BAND.
C15_Witness ==
    /\ lastOp.called
    /\ \E items \in {DisplayItems} : \E x, y \in DOMAIN items :
           /\ items[x].type = "cluster"
           /\ items[x].members[Len(items[x].members)].score
                  - items[x].members[1].score > SCORE_BAND
           /\ items[y].type = "single"

\* C16: every subject of the current scorer is in exactly one display item,
\* exactly once; every member of an item is such a subject; no item is empty.
C16_ItemsPartitionSubjects ==
    \A rows \in {Rows}, items \in {DisplayItems} :
    \A slots \in {UNION {{<<x, k>> : k \in DOMAIN items[x].members} :
                              x \in DOMAIN items}} :
        /\ \A x \in DOMAIN items : Len(items[x].members) >= 1
        /\ \A r \in DOMAIN rows :
               Cardinality({sl \in slots :
                   items[sl[1]].members[sl[2]].name = rows[r].name}) = 1
        /\ \A sl \in slots :
               \E r \in DOMAIN rows : items[sl[1]].members[sl[2]] = rows[r]

\* C16 happens: after a score input the sixteen subjects of the first scorer
\* are spread over at least four items, singles and clusters.
C16_Witness ==
    /\ lastOp.called
    /\ currentScorer = "Jiun"
    /\ Len(Rows) = Len(participantsNames) - 1
    /\ \E items \in {DisplayItems} :
           /\ Len(items) >= 4
           /\ \E x, y \in DOMAIN items :
                  /\ items[x].type = "single"
                  /\ Len(items[y].members) >= 3

\* C17: the centerX of every display item is the mean of its members'
\* scores, or CenterMin when the mean is below it, or CenterMax when the
\* mean is above it; and the items are listed by non-decreasing centerX.
C17_CenterIsClampedMean ==
    \A items \in {DisplayItems} :
        /\ \A x \in DOMAIN items :
               LET count == Len(items[x].members)
                   sum == SumScores(items[x].members, count)
                   c == items[x].centerX
               IN  /\ c.den > 0
                   /\ sum < CenterMin * count => c.num = CenterMin * c.den
                   /\ sum > CenterMax * count => c.num = CenterMax * c.den
                   /\ (CenterMin * count <= sum /\ sum <= CenterMax * count)
                          => c.num * count = sum * c.den
        /\ \A x, y \in DOMAIN items :
               x < y => items[x].centerX.num * items[y].centerX.den
                           <= items[y].centerX.num * items[x].centerX.den

\* C17 happens: after a score input the layout has an item whose mean lies
\* above CenterMax, one whose mean lies below CenterMin and a cluster whose
\* mean is no whole number.
C17_Witness ==
    /\ lastOp.called
    /\ \E items \in {DisplayItems} : \E x, y, z \in DOMAIN items :
           /\ SumScores(items[x].members, Len(items[x].members))
                  > CenterMax * Len(items[x].members)
           /\ items[x].centerX = Rat(CenterMax, 1)
           /\ SumScores(items[y].members, Len(items[y].members))
                  < CenterMin * Len(items[y].members)
           /\ items[y].centerX = Rat(CenterMin, 1)
           /\ items[z].type = "cluster"
           /\ items[z].centerX.num % items[z].centerX.den # 0

\* Every stored score is in ScoreMin..ScoreMax.
ScoresWithin(evals) ==
    \A e \in DOMAIN evals : \A n \in DOMAIN evals[e] :
        evals[e][n] \in ScoreMin..ScoreMax

\* C18: while every stored score is in 0..100, every entry of averageScores
\* is a whole number in 0..100 and the entries come in non-increasing
\* order, so the entries the leaderboard lists are the first
\* LeaderboardSize of them and none left out is higher than one listed.
C18_AveragesInRange ==
    ScoresWithin(allEvaluations) =>
        \A all \in {averageScores(allEvaluations)},
           board \in {leaderboard(allEvaluations)} :
            /\ \A i \in DOMAIN all : all[i].score \in ScoreMin..ScoreMax
            /\ \A i, j \in DOMAIN all : i < j => all[i].score >= all[j].score
            /\ (\E e \in Participants \cap DOMAIN allEvaluations :
                    \E n \in DOMAIN allEvaluations[e] : allEvaluations[e][n] > 0)
                  => Len(board) = IF Len(all) < LeaderboardSize
                                  THEN Len(all) ELSE LeaderboardSize
            /\ \A i \in DOMAIN board :
                   /\ board[i] = all[i]
                   /\ \A j \in DOMAIN all : j > Len(board) =>
                          board[i].score >= all[j].score

\* C18 happens: after a score input, the average of a subject rated 52 and
\* 55 by two scorers is listed as 54, among more entries than the
\* leaderboard shows.
C18_Witness ==
    /\ lastOp.called
    /\ allEvaluations["Jiun"]["Junho"] = 52
    /\ allEvaluations["Daeseong"]["Junho"] = 55
    /\ \E all \in {averageScores(allEvaluations)} :
           /\ Len(all) > LeaderboardSize
           /\ \E i \in DOMAIN all : all[i] = [name |-> "Junho", score |-> 54]
    /\ Len(leaderboard(allEvaluations)) = LeaderboardSize

====
